---------------------------- MODULE Spec2Model ----------------------------
(***************************************************************************)
(* Model of src/src/main.py of arxiv-recent: the Atom feed parser          *)
(* (parse_arxiv_feed) and the batch driver (the __main__ block) that, for  *)
(* every subject, fetches a feed, parses it, keeps the records of the      *)
(* latest date and writes them to <subject>.<date>.jsonl and today.jsonl.  *)
(*                                                                         *)
(* Text is modelled as a sequence of character codes, so that slicing,     *)
(* prefix tests, stripping and the lexicographic order of Python strings   *)
(* are computed, not assumed.  A Python value that may be None is a record *)
(* [isNone, s].                                                            *)
(***************************************************************************)
EXTENDS Integers, Sequences, FiniteSets, TLC

VARIABLES
    run,          \* number of the current invocation of the script
    si,           \* position of the for loop in SUBJECTS (1-based)
    pc,           \* position of the script inside the loop body
    err,          \* the uncaught exception that ended the run, or "none"
    feed,         \* the feed returned by get_recent_csse_papers
    ei,           \* position of parse_arxiv_feed's loop over the entries
    papers,       \* parse_arxiv_feed's local list `papers`
    parsed,       \* the driver's `parsed`
    latest_date,  \* the driver's `latest_date`
    filtered,     \* the driver's `filtered`
    files,        \* the dated files of DATA_DIR: <<subject, date>> -> lines
    today,        \* DATA_DIR / "today.jsonl": [exists, lines]
    data_dir,     \* whether the directory DATA_DIR exists
    stdout        \* the lines printed by the current run

vars == <<run, si, pc, err, feed, ei, papers, parsed, latest_date, filtered,
          files, today, data_dir, stdout>>

---------------------------------------------------------------------------
(* Bounds of the model.                                                    *)

MaxRuns == 2        \* invocations of the script that are explored
MaxFeedLen == 2     \* entries of a feed the driver is given
MaxAuthors == 2     \* author elements of an entry the parser is given
MaxLinks == 2       \* link elements of an entry the parser is given

---------------------------------------------------------------------------
(* Python values.                                                          *)

None == [isNone |-> TRUE, s |-> <<>>]

Str(chars) == [isNone |-> FALSE, s |-> chars]

\* Truth value of an optional string: None and "" are falsy.
Truthy(v) == ~v.isNone /\ v.s # <<>>

\* s[:n]
Take(s, n) == SubSeq(s, 1, IF Len(s) < n THEN Len(s) ELSE n)

\* s.startswith(p)
StartsWith(s, p) == Len(p) <= Len(s) /\ SubSeq(s, 1, Len(p)) = p

\* a <= b in the order of Python strings: by code point, a proper prefix first.
RECURSIVE StrLeq(_, _)
StrLeq(a, b) ==
    IF a = <<>> THEN TRUE
    ELSE IF b = <<>> THEN FALSE
    ELSE IF Head(a) # Head(b) THEN Head(a) < Head(b)
    ELSE StrLeq(Tail(a), Tail(b))

\* max(list) of a non-empty list of strings: the first of the largest ones.
RECURSIVE MaxStr(_)
MaxStr(l) ==
    IF Len(l) = 1 THEN l[1]
    ELSE LET m == MaxStr(SubSeq(l, 1, Len(l) - 1))
         IN IF StrLeq(l[Len(l)], m) THEN m ELSE l[Len(l)]

\* The characters str.strip() removes: the code points for which
\* str.isspace() holds (tab to carriage return, the separators 28-31, space,
\* NEL, no-break space, and the Unicode spaces and line separators).
IsSpace(c) ==
    c \in (9..13) \cup (28..32) \cup {133, 160, 5760} \cup (8192..8202)
         \cup {8232, 8233, 8239, 8287, 12288}

RECURSIVE LStrip(_)
LStrip(s) == IF s # <<>> /\ IsSpace(Head(s)) THEN LStrip(Tail(s)) ELSE s

RECURSIVE RStrip(_)
RStrip(s) ==
    IF s # <<>> /\ IsSpace(s[Len(s)]) THEN RStrip(SubSeq(s, 1, Len(s) - 1))
    ELSE s

\* s.strip()
Strip(s) == RStrip(LStrip(s))

---------------------------------------------------------------------------
(* The feed as ElementTree sees it.  A child element looked up with find() *)
(* is absent, or present with a text that is None (no text) or a string.   *)

NoElem == [present |-> FALSE, text |-> None]

Elem(t) == [present |-> TRUE, text |-> t]

\* "application/pdf"
PdfType == <<97,112,112,108,105,99,97,116,105,111,110,47,112,100,102>>

\* "text/html"
HtmlType == <<116,101,120,116,47,104,116,109,108>>

\* The feed ET.fromstring rejects.
MalformedXml == [wellformed |-> FALSE, entries |-> <<>>]

Feed(es) == [wellformed |-> TRUE, entries |-> es]

---------------------------------------------------------------------------
(* parse_arxiv_feed, one entry.                                            *)

\* entry.find(tag).text if entry.find(tag) is not None else None
FindText(el) == IF el.present THEN el.text ELSE None

\* entry.find(tag).text.strip() raises AttributeError when .text is None.
StripRaises(el) == el.present /\ el.text.isNone

\* entry.find(tag).text.strip() if entry.find(tag) is not None else None
FindStripped(el) == IF el.present THEN Str(Strip(el.text.s)) ELSE None

\* The loop over the author elements: an author without a name child adds
\* nothing, an author with one adds name.text (None for a name without text).
\* (variant: a name without text is skipped as well)
RECURSIVE ParseAuthorsSkipNoText(_)
ParseAuthorsSkipNoText(as) ==
    IF as = <<>> THEN <<>>
    ELSE LET rest == ParseAuthorsSkipNoText(SubSeq(as, 1, Len(as) - 1))
             name == as[Len(as)].name
         IN IF name.present /\ ~name.text.isNone THEN Append(rest, name.text)
            ELSE rest

RECURSIVE ParseAuthors(_)
ParseAuthors(as) ==
    IF as = <<>> THEN <<>>
    ELSE LET rest == ParseAuthors(SubSeq(as, 1, Len(as) - 1))
             name == as[Len(as)].name
         IN IF name.present THEN Append(rest, name.text) ELSE rest

\* The loop over the link elements: every link of type application/pdf
\* assigns pdf_url, so the last one in document order decides.
\* (variant: the first link of type application/pdf decides)
RECURSIVE PdfUrlFirst(_)
PdfUrlFirst(ls) ==
    IF ls = <<>> THEN None
    ELSE IF ls[1].type = Str(PdfType) THEN ls[1].href
    ELSE PdfUrlFirst(Tail(ls))

RECURSIVE PdfUrl(_)
PdfUrl(ls) ==
    IF ls = <<>> THEN None
    ELSE IF ls[Len(ls)].type = Str(PdfType) THEN ls[Len(ls)].href
    ELSE PdfUrl(SubSeq(ls, 1, Len(ls) - 1))

\* Whether building the record of an entry raises AttributeError.
EntryRaises(e) == StripRaises(e.title) \/ StripRaises(e.summary)

\* The record of an entry (when building it does not raise).
ParseEntryRecord(e) ==
    [id        |-> FindText(e.id),
     title     |-> FindStripped(e.title),
     summary   |-> FindStripped(e.summary),
     published |-> FindText(e.published),
     updated   |-> FindText(e.updated),
     authors   |-> ParseAuthors(e.authors),
     pdf_url   |-> PdfUrl(e.links)]

---------------------------------------------------------------------------
(* Inputs.                                                                 *)

\* All sequences over S of length at most n.
SeqsUpTo(S, n) == UNION {[1..k -> S] : k \in 0..n}

\* "id1", "\u00a0T " (a no-break space, "T", a space), "S\n",
\* "2024-01-01T09:00:00Z"
IdText == <<105,100,49>>
TitleText == <<160,84,32>>
SummaryText == <<83,10>>
PublishedText == <<50,48,50,52,45,48,49,45,48,49,84,48,57,58,48,48,58,48,48,90>>

\* "2024-01-01T10:00:00Z", "2024-01-02T09:00:00Z", "2024-01-02T11:00:00Z"
U1 == <<50,48,50,52,45,48,49,45,48,49,84,49,48,58,48,48,58,48,48,90>>
U2 == <<50,48,50,52,45,48,49,45,48,50,84,48,57,58,48,48,58,48,48,90>>
U3 == <<50,48,50,52,45,48,49,45,48,50,84,49,49,58,48,48,58,48,48,90>>

\* "2024/01/02T09:00:00Z": a timestamp whose date part holds "/".
USlash == <<50,48,50,52,47,48,49,47,48,50,84,48,57,58,48,48,58,48,48,90>>

\* A child element: absent, without text, or with the given text.
ElemChoices(chars) == {NoElem, Elem(None), Elem(Str(chars))}

\* Author elements: no name child, a name without text, names "a" and "b".
AuthorElems ==
    {[name |-> n] : n \in {NoElem, Elem(None), Elem(Str(<<97>>)), Elem(Str(<<98>>))}}

\* Link elements: type and href attributes, each possibly missing;
\* hrefs "A" and "B".
LinkElems ==
    {[type |-> t, href |-> h] : t \in {None, Str(PdfType), Str(HtmlType)},
                                h \in {None, Str(<<65>>), Str(<<66>>)}}

PlainEntry(u) ==
    [id |-> Elem(Str(IdText)), title |-> Elem(Str(TitleText)),
     summary |-> Elem(Str(SummaryText)), published |-> Elem(Str(PublishedText)),
     updated |-> u, authors |-> <<>>, links |-> <<>>]

\* Entries that differ in which of the five text fields they supply.
FieldEntries ==
    {[id |-> i, title |-> t, summary |-> s, published |-> p, updated |-> u,
      authors |-> <<>>, links |-> <<>>] :
        i \in ElemChoices(IdText), t \in ElemChoices(TitleText),
        s \in ElemChoices(SummaryText), p \in ElemChoices(PublishedText),
        u \in ElemChoices(U1)}

\* Entries that differ in their author elements.
AuthorEntries ==
    {[PlainEntry(Elem(Str(U1))) EXCEPT !.authors = as] :
        as \in SeqsUpTo(AuthorElems, MaxAuthors)}

\* Entries that differ in their link elements.
LinkEntries ==
    {[PlainEntry(Elem(Str(U1))) EXCEPT !.links = ls] :
        ls \in SeqsUpTo(LinkElems, MaxLinks)}

\* The feeds the parser is checked on.
ParserFeeds ==
    {MalformedXml}
    \cup {Feed(<<e>>) : e \in FieldEntries \cup AuthorEntries \cup LinkEntries}
    \cup {Feed(es) : es \in SeqsUpTo({PlainEntry(Elem(Str(U2))),
                                      PlainEntry(NoElem)}, MaxFeedLen)}

\* The `updated` element of the entries the driver is given: missing, or a
\* timestamp of one of two days.
UpdatedChoices == {NoElem, Elem(Str(U1)), Elem(Str(U2))}

\* The feeds the driver is given: every feed of at most MaxFeedLen entries,
\* the three-entry feed with two timestamps of the later day, a feed that is not
\* well-formed, a feed with a title element without text and two feeds
\* whose latest date holds "/".
DriverFeeds ==
    {Feed(es) : es \in SeqsUpTo({PlainEntry(u) : u \in UpdatedChoices}, MaxFeedLen)}
    \cup {Feed(<<PlainEntry(Elem(Str(U1))), PlainEntry(Elem(Str(U2))),
                 PlainEntry(Elem(Str(U3)))>>)}
    \cup {MalformedXml}
    \cup {Feed(<<[PlainEntry(Elem(Str(U1))) EXCEPT !.title = Elem(None)]>>)}
    \cup {Feed(<<PlainEntry(Elem(Str(USlash)))>>),
           Feed(<<PlainEntry(Elem(Str(U2))), PlainEntry(Elem(Str(USlash)))>>)}

\* src.config.SUBJECTS
SUBJECTS == <<"cs.SE", "cs.AI">>

---------------------------------------------------------------------------
(* The file system and the console.                                        *)

\* json.dumps(item, ensure_ascii=False) + "\n": one line holding one object.
JsonLine(item) == [json |-> item]

\* The content written by the loop `for item in filtered: f.write(...)`.
RECURSIVE Lines(_)
Lines(items) ==
    IF items = <<>> THEN <<>>
    ELSE Append(Lines(SubSeq(items, 1, Len(items) - 1)), JsonLine(items[Len(items)]))

NoFile == [exists |-> FALSE, lines |-> <<>>]

FileOf(ls) == [exists |-> TRUE, lines |-> ls]

\* DATA_DIR / f"{subject}.{latest_date}.jsonl"
JsonlFilename(subject, date) == <<subject, date>>

\* jsonl_filename.exists()
Exists(name) == name \in DOMAIN files

\* Whether open(jsonl_filename, "w") raises FileNotFoundError: DATA_DIR does
\* not exist, or the date part of the name holds "/" and so names a
\* directory below DATA_DIR, which never exists.  (The subjects are category
\* codes without "/".)
OpenRaises(name) == ~data_dir \/ \E k \in 1..Len(name[2]) : name[2][k] = 47

\* open(name, "w") followed by the writes: the file holds exactly ls.
WriteFile(fs, name, ls) ==
    [n \in DOMAIN fs \cup {name} |-> IF n = name THEN ls ELSE fs[n]]

---------------------------------------------------------------------------
(* The driver's computations (lines 87-101).                               *)

\* Length of the date part of a timestamp, the 10 of p["updated"][:10].
DateLen == 10

\* all_dates = [p["updated"][:10] for p in parsed if p.get("updated")]
RECURSIVE AllDates(_)
AllDates(ps) ==
    IF ps = <<>> THEN <<>>
    ELSE LET rest == AllDates(SubSeq(ps, 1, Len(ps) - 1))
             u == ps[Len(ps)].updated
         IN IF Truthy(u) THEN Append(rest, Take(u.s, DateLen)) ELSE rest

\* (variant: the date of the first record that has one)
LatestDateFirst(ps) == AllDates(ps)[1]

\* latest_date = max(all_dates), for a non-empty all_dates
LatestDate(ps) == MaxStr(AllDates(ps))

\* p["updated"].startswith(latest_date) raises AttributeError for a record
\* whose updated is None.
FilterRaises(ps) == \E i \in 1..Len(ps) : ps[i].updated.isNone

\* (variant: no record is filtered out)
FilterKeepAll(ps, d) == ps

\* filtered = [p for p in parsed if p["updated"].startswith(latest_date)]
FilterByDate(ps, d) == SelectSeq(ps, LAMBDA p : StartsWith(p.updated.s, d))

---------------------------------------------------------------------------
(* The state after construction: nothing has run; DATA_DIR holds no file,  *)
(* and may not exist at all (main.py never creates it).                    *)

NoFeed == Feed(<<>>)

NoDate == <<>>

\* The locals of one iteration of the loop, before the iteration assigns them.
LocalsCleared ==
    /\ feed' = NoFeed
    /\ ei' = 1
    /\ papers' = <<>>
    /\ parsed' = <<>>
    /\ latest_date' = NoDate
    /\ filtered' = <<>>

Init ==
    /\ run = 1
    /\ si = 1
    /\ pc = "fetch"
    /\ err = "none"
    /\ feed = NoFeed
    /\ ei = 1
    /\ papers = <<>>
    /\ parsed = <<>>
    /\ latest_date = NoDate
    /\ filtered = <<>>
    /\ files = <<>>
    /\ today = NoFile
    /\ data_dir \in BOOLEAN
    /\ stdout = <<>>

\* An uncaught exception ends the run.
Raise(e) ==
    /\ pc' = "crashed"
    /\ err' = e

\* `continue`, or the end of the loop body: the next subject, or the end of
\* the script after the last one.
NextSubject ==
    /\ si' = si + 1
    /\ pc' = IF si = Len(SUBJECTS) THEN "done" ELSE "fetch"
    /\ LocalsCleared

---------------------------------------------------------------------------
(* get_recent_csse_papers (lines 50-74), called at line 79.                *)

\* The request succeeds and returns a feed.
Fetch ==
    /\ pc = "fetch"
    /\ \E f \in DriverFeeds : feed' = f
    /\ pc' = "parse"
    /\ ei' = 1
    /\ papers' = <<>>
    /\ UNCHANGED <<data_dir, run, si, err, parsed, latest_date, filtered, files,
                   today, stdout>>

\* urlopen raises.
FetchFail ==
    /\ pc = "fetch"
    /\ Raise("fetch:URLError")
    /\ UNCHANGED <<data_dir, run, si, feed, ei, papers, parsed, latest_date, filtered,
                   files, today, stdout>>

---------------------------------------------------------------------------
(* parse_arxiv_feed (lines 7-48), called at line 80.                       *)

\* ET.fromstring raises ParseError on a feed that is not well-formed.
ParseMalformed ==
    /\ pc = "parse"
    /\ ~feed.wellformed
    /\ Raise("parse:ParseError")
    /\ UNCHANGED <<data_dir, run, si, feed, ei, papers, parsed, latest_date, filtered,
                   files, today, stdout>>

\* One iteration of the loop over the entries.
ParseEntry ==
    /\ pc = "parse"
    /\ feed.wellformed
    /\ ei <= Len(feed.entries)
    /\ ~EntryRaises(feed.entries[ei])
    /\ papers' = Append(papers, ParseEntryRecord(feed.entries[ei]))
    /\ ei' = ei + 1
    /\ UNCHANGED <<data_dir, run, si, pc, err, feed, parsed, latest_date, filtered,
                   files, today, stdout>>

\* One iteration that raises: .text.strip() on a title or summary element
\* without text.
ParseEntryRaise ==
    /\ pc = "parse"
    /\ feed.wellformed
    /\ ei <= Len(feed.entries)
    /\ EntryRaises(feed.entries[ei])
    /\ Raise("parse:AttributeError")
    /\ UNCHANGED <<data_dir, run, si, feed, ei, papers, parsed, latest_date, filtered,
                   files, today, stdout>>

\* return papers
ParseReturn ==
    /\ pc = "parse"
    /\ feed.wellformed
    /\ ei > Len(feed.entries)
    /\ parsed' = papers
    /\ pc' = "check_empty"
    /\ UNCHANGED <<data_dir, run, si, err, feed, ei, papers, latest_date, filtered,
                   files, today, stdout>>

---------------------------------------------------------------------------
(* The loop body of the driver (lines 82-119).                             *)

\* (variant: `break` in place of `continue`)
NoPapersBreak ==
    /\ pc = "check_empty"
    /\ parsed = <<>>
    /\ stdout' = Append(stdout, <<"no_papers", SUBJECTS[si]>>)
    /\ pc' = "done"
    /\ LocalsCleared
    /\ UNCHANGED <<data_dir, run, si, err, files, today>>

\* if not parsed: print(...); continue
NoPapers ==
    /\ pc = "check_empty"
    /\ parsed = <<>>
    /\ stdout' = Append(stdout, <<"no_papers", SUBJECTS[si]>>)
    /\ NextSubject
    /\ UNCHANGED <<data_dir, run, err, files, today>>

\* all_dates, latest_date = max(all_dates), print
ComputeLatestDate ==
    /\ pc = "check_empty"
    /\ parsed # <<>>
    /\ AllDates(parsed) # <<>>
    /\ latest_date' = LatestDate(parsed)
    /\ stdout' = Append(stdout, <<"latest_date", SUBJECTS[si], LatestDate(parsed)>>)
    /\ pc' = "filter"
    /\ UNCHANGED <<data_dir, run, si, err, feed, ei, papers, parsed, filtered,
                   files, today>>

\* max([]) raises ValueError when no record has an updated value.
ComputeLatestDateRaise ==
    /\ pc = "check_empty"
    /\ parsed # <<>>
    /\ AllDates(parsed) = <<>>
    /\ Raise("latest_date:ValueError")
    /\ UNCHANGED <<data_dir, run, si, feed, ei, papers, parsed, latest_date, filtered,
                   files, today, stdout>>

\* filtered = [...]
Filter ==
    /\ pc = "filter"
    /\ ~FilterRaises(parsed)
    /\ filtered' = FilterByDate(parsed, latest_date)
    /\ pc' = "check_exists"
    /\ UNCHANGED <<data_dir, run, si, err, feed, ei, papers, parsed, latest_date,
                   files, today, stdout>>

\* None.startswith raises AttributeError.
FilterRaise ==
    /\ pc = "filter"
    /\ FilterRaises(parsed)
    /\ Raise("filter:AttributeError")
    /\ UNCHANGED <<data_dir, run, si, feed, ei, papers, parsed, latest_date, filtered,
                   files, today, stdout>>

\* (variant: the dated file is written whether or not it exists)
SkipsExistingNever(name) == FALSE

\* if jsonl_filename.exists(): continue
SkipsExisting(name) == Exists(name)

SkipExisting ==
    /\ pc = "check_exists"
    /\ SkipsExisting(JsonlFilename(SUBJECTS[si], latest_date))
    /\ NextSubject
    /\ UNCHANGED <<data_dir, run, err, files, today, stdout>>

\* open(jsonl_filename, "w") raises FileNotFoundError.
WriteDatedRaise ==
    /\ pc = "check_exists"
    /\ ~SkipsExisting(JsonlFilename(SUBJECTS[si], latest_date))
    /\ OpenRaises(JsonlFilename(SUBJECTS[si], latest_date))
    /\ Raise("write:FileNotFoundError")
    /\ UNCHANGED <<data_dir, run, si, feed, ei, papers, parsed, latest_date, filtered,
                   files, today, stdout>>

\* with open(jsonl_filename, "w") ...; print
WriteDated ==
    /\ pc = "check_exists"
    /\ ~SkipsExisting(JsonlFilename(SUBJECTS[si], latest_date))
    /\ ~OpenRaises(JsonlFilename(SUBJECTS[si], latest_date))
    /\ files' = WriteFile(files, JsonlFilename(SUBJECTS[si], latest_date),
                          Lines(filtered))
    /\ stdout' = Append(stdout, <<"saved", Len(filtered),
                                  JsonlFilename(SUBJECTS[si], latest_date)>>)
    /\ pc' = "write_today"
    /\ UNCHANGED <<data_dir, run, si, err, feed, ei, papers, parsed, latest_date,
                   filtered, today>>

\* (variant: the file is opened for appending)
TodayContentAppend(old, items) == FileOf(old.lines \o Lines(items))

\* with open(today_file, "w") ...: the content of today.jsonl afterwards.
TodayContent(old, items) == FileOf(Lines(items))

\* The write of today.jsonl, the print, and the end of the loop body.
WriteToday ==
    /\ pc = "write_today"
    /\ today' = TodayContent(today, filtered)
    /\ stdout' = Append(stdout, <<"saved", Len(filtered), <<"today">>>>)
    /\ NextSubject
    /\ UNCHANGED <<data_dir, run, err, files>>

---------------------------------------------------------------------------
(* The script is started again (a scheduled run) once a run has ended;     *)
(* DATA_DIR keeps its files.                                               *)

StartRun ==
    /\ pc \in {"done", "crashed"}
    /\ run < MaxRuns
    /\ run' = run + 1
    /\ si' = 1
    /\ pc' = "fetch"
    /\ err' = "none"
    /\ LocalsCleared
    /\ stdout' = <<>>
    /\ UNCHANGED <<data_dir, files, today>>

Next ==
    \/ Fetch
    \/ FetchFail
    \/ ParseMalformed
    \/ ParseEntry
    \/ ParseEntryRaise
    \/ ParseReturn
    \/ NoPapers
    \/ ComputeLatestDate
    \/ ComputeLatestDateRaise
    \/ Filter
    \/ FilterRaise
    \/ SkipExisting
    \/ WriteDatedRaise
    \/ WriteDated
    \/ WriteToday
    \/ StartRun

Spec == Init /\ [][Next]_vars

---------------------------------------------------------------------------
(* The parser alone: parse_arxiv_feed is called on a feed.                 *)

InitParser ==
    /\ run = 1
    /\ si = 1
    /\ pc = "parse"
    /\ err = "none"
    /\ feed \in ParserFeeds
    /\ ei = 1
    /\ papers = <<>>
    /\ parsed = <<>>
    /\ latest_date = NoDate
    /\ filtered = <<>>
    /\ files = <<>>
    /\ today = NoFile
    /\ data_dir = TRUE
    /\ stdout = <<>>

NextParser ==
    \/ ParseMalformed
    \/ ParseEntry
    \/ ParseEntryRaise
    \/ ParseReturn

SpecParser == InitParser /\ [][NextParser]_vars

---------------------------------------------------------------------------
(* Properties of the driver, checked under Spec.                           *)

\* "2024-01-02"
Date0102 == Take(U2, DateLen)

\* The positions of ps that satisfy Keep, and the sequence ps restricted to
\* them in order, stated without recursion.
IsRestriction(out, ps, Keep(_)) ==
    LET idx == {i \in 1..Len(ps) : Keep(ps[i])}
    IN /\ Len(out) = Cardinality(idx)
       /\ \A i \in idx : out[Cardinality({j \in idx : j <= i})] = ps[i]

\* C1: a run goes through every subject of the list, in list order, whatever
\* happened for the earlier subjects: unless a fetch, a parse or the opening
\* of an output file failed, the run ends only after the last subject (in
\* particular it does not end early on records whose `updated` is missing).
C1_EverySubjectProcessed ==
    (/\ pc \in {"done", "crashed"}
     /\ err \notin {"fetch:URLError", "parse:ParseError", "parse:AttributeError",
                   "write:FileNotFoundError"})
    => si = Len(SUBJECTS) + 1

\* C2: whenever the driver leaves a subject whose parse yielded at least one
\* record, today.jsonl holds that subject's filtered set, also when the
\* dated file existed and its write was skipped.
C2_MirrorAlwaysRefreshed ==
    [][(si' = si + 1 /\ parsed # <<>>) => today' = FileOf(Lines(filtered))]_vars

\* C3: no-clobber: no step changes the content of, or removes, a dated file
\* that exists, and when the dated file of the subject being processed
\* exists the step taken raises no error.
C3_NoClobber ==
    [][/\ \A n \in DOMAIN files : n \in DOMAIN files' /\ files'[n] = files[n]
       /\ (pc = "check_exists" /\ Exists(JsonlFilename(SUBJECTS[si], latest_date)))
            => (err' = "none" /\ pc' # "crashed")]_vars

\* C3 witness: the second run processes a subject whose dated file exists
\* and holds other lines than the ones the run would write.
C3_Witness ==
    /\ run = 2
    /\ pc = "check_exists"
    /\ Exists(JsonlFilename(SUBJECTS[si], latest_date))
    /\ files[JsonlFilename(SUBJECTS[si], latest_date)] # Lines(filtered)

\* C4: once computed, latest_date is the maximum of the first 10 characters
\* of `updated` over the records, and filtered is exactly the records whose
\* `updated` starts with latest_date, in parsed order; updated values
\* 2024-01-01T10:00:00Z, 2024-01-02T09:00:00Z, 2024-01-02T11:00:00Z give
\* 2024-01-02 and the last two records.
C4_LatestDateAndFilter ==
    /\ pc \in {"filter", "check_exists", "write_today"} =>
         /\ \E i \in 1..Len(parsed) :
               /\ Truthy(parsed[i].updated)
               /\ latest_date = Take(parsed[i].updated.s, DateLen)
         /\ \A i \in 1..Len(parsed) :
               Truthy(parsed[i].updated) =>
                   StrLeq(Take(parsed[i].updated.s, DateLen), latest_date)
    /\ pc \in {"check_exists", "write_today"} =>
         /\ \A i \in 1..Len(parsed) : ~parsed[i].updated.isNone
         /\ IsRestriction(filtered, parsed,
                          LAMBDA p : StartsWith(p.updated.s, latest_date))
         /\ ([i \in 1..Len(parsed) |-> parsed[i].updated] = <<Str(U1), Str(U2), Str(U3)>>
               => /\ latest_date = Date0102
                  /\ filtered = <<parsed[2], parsed[3]>>)

\* C4 witness: the three records of the example, filtered.
C4_Witness ==
    /\ pc = "check_exists"
    /\ [i \in 1..Len(parsed) |-> parsed[i].updated] = <<Str(U1), Str(U2), Str(U3)>>
    /\ latest_date = Date0102
    /\ Len(filtered) = 2

\* C5: when the parse yields no record, the step taken changes no file,
\* prints "no papers found" for the subject and moves to the next subject
\* (or ends the run after the last one) without an error.
C5_EmptyResult ==
    [][(pc = "check_empty" /\ parsed = <<>>) =>
          /\ files' = files
          /\ today' = today
          /\ stdout' = Append(stdout, <<"no_papers", SUBJECTS[si]>>)
          /\ si' = si + 1
          /\ pc' = (IF si = Len(SUBJECTS) THEN "done" ELSE "fetch")
          /\ err' = "none"]_vars

\* C5 witness: the first subject of the first run had no papers, no file
\* exists, and the feed of the second subject is being parsed.
C5_Witness ==
    /\ run = 1
    /\ si = 2
    /\ pc = "parse"
    /\ stdout = <<<<"no_papers", SUBJECTS[1]>>>>
    /\ files = <<>>
    /\ ~today.exists

\* C9: today.jsonl changes only by the write of the subject being processed,
\* and then holds exactly the lines of that subject's filtered set.
C9_MirrorOverwritten ==
    [][today' # today =>
          /\ pc = "write_today"
          /\ today' = FileOf(Lines(filtered))]_vars

\* C9 witness: in one run the first subject wrote two lines to today.jsonl,
\* the second subject wrote one line, and today.jsonl holds one line.
C9_Witness ==
    /\ pc = "done"
    /\ Len(stdout) = 6
    /\ stdout[3] = <<"saved", 2, <<"today">>>>
    /\ stdout[6] = <<"saved", 1, <<"today">>>>
    /\ Len(today.lines) = 1

\* C10: every dated file holds at least one line, every record in it has an
\* `updated` that starts with the date of the file name, and the file just
\* written holds one line per record of the filtered set.
C10_DatedFiles ==
    /\ \A n \in DOMAIN files :
          /\ Len(files[n]) >= 1
          /\ \A k \in 1..Len(files[n]) :
                /\ ~files[n][k].json.updated.isNone
                /\ StartsWith(files[n][k].json.updated.s, n[2])
    /\ pc = "write_today" =>
          LET name == JsonlFilename(SUBJECTS[si], latest_date)
          IN /\ Exists(name)
             /\ Len(files[name]) = Len(filtered)
             /\ \A k \in 1..Len(filtered) : files[name][k] = JsonLine(filtered[k])

\* C10 witness: a dated file was just written with two of three records.
C10_Witness ==
    /\ pc = "write_today"
    /\ Len(parsed) = 3
    /\ Len(filtered) = 2
    /\ Len(files[JsonlFilename(SUBJECTS[si], latest_date)]) = 2

---------------------------------------------------------------------------
(* Properties of the parser, checked under SpecParser.                     *)

\* The text a child element supplies: None when the element is missing or
\* has no text.
Supplied(el) == IF el.present /\ ~el.text.isNone THEN el.text ELSE None

SuppliedTrimmed(el) ==
    IF el.present /\ ~el.text.isNone THEN Str(Strip(el.text.s)) ELSE None

\* C6: on a well-formed feed the parse does not fail, and every record holds
\* for id, title, summary, published and updated the supplied text (trimmed
\* for title and summary) or null when the field is not supplied.
C6_FieldsOptional ==
    feed.wellformed =>
        /\ err = "none"
        /\ \A i \in 1..Len(papers) :
              LET e == feed.entries[i]
              IN /\ papers[i].id = Supplied(e.id)
                 /\ papers[i].title = SuppliedTrimmed(e.title)
                 /\ papers[i].summary = SuppliedTrimmed(e.summary)
                 /\ papers[i].published = Supplied(e.published)
                 /\ papers[i].updated = Supplied(e.updated)

\* The positions of the links of type application/pdf.
PdfLinks(ls) == {k \in 1..Len(ls) : ls[k].type = Str(PdfType)}

\* C7: pdf_url is the href of the last link of type application/pdf, and
\* null when there is none.
C7_PdfUrlLastWins ==
    \A i \in 1..Len(papers) :
        LET ls == feed.entries[i].links
        IN IF PdfLinks(ls) = {} THEN papers[i].pdf_url = None
           ELSE \E k \in PdfLinks(ls) :
                   /\ \A j \in PdfLinks(ls) : j <= k
                   /\ papers[i].pdf_url = ls[k].href

\* C7 witness: two links of type application/pdf with hrefs "A" then "B"
\* were parsed to "B".
C7_Witness ==
    /\ Len(papers) = 1
    /\ feed.entries[1].links = <<[type |-> Str(PdfType), href |-> Str(<<65>>)],
                                 [type |-> Str(PdfType), href |-> Str(<<66>>)]>>
    /\ papers[1].pdf_url = Str(<<66>>)

\* C8 as stated: the authors list has as many elements as the entry has
\* author elements.
C8_OnePerAuthorElement ==
    \A i \in 1..Len(papers) :
        Len(papers[i].authors) = Len(feed.entries[i].authors)

\* C8 as amended: the authors list holds, in document order, the text of
\* the name of every author element that has a name child (null for a name
\* without text), and nothing for an author element without one.
C8_OnePerNamedAuthor ==
    \A i \in 1..Len(papers) :
        LET as == feed.entries[i].authors
            named == {k \in 1..Len(as) : as[k].name.present}
        IN /\ Len(papers[i].authors) = Cardinality(named)
           /\ \A k \in named :
                 papers[i].authors[Cardinality({j \in named : j <= k})]
                     = as[k].name.text

\* C8 witness: an author element without a name child followed by one whose
\* name has no text were parsed to the one-element list <<null>>.
C8_Witness ==
    /\ Len(papers) = 1
    /\ feed.entries[1].authors = <<[name |-> NoElem], [name |-> Elem(None)]>>
    /\ papers[1].authors = <<None>>

===========================================================================
